---- MODULE Spec2Model ----
(***************************************************************************)
(* Model of src/src/form-persistence.ts (FormPersistence): the mapping     *)
(* between a form's elements and a serialized record, the field filters,   *)
(* the special-handler dispatch, and the storage / listener lifecycle of   *)
(* save, load, clearStorage and persist.                                   *)
(***************************************************************************)
EXTENDS Integers, Sequences, FiniteSets, TLC

VARIABLES
    form,             \* [Forms -> [id, elements]]: the live forms of the page
    config,           \* [Forms -> options]: the options object the caller passes for that form
    localStorage,     \* durable store: key -> stored text (a token sequence)
    sessionStorage,   \* session-scoped store: key -> stored text
    windowListeners,  \* listeners registered on window, in registration order
    submitListeners,  \* forms that carry the submit listener installed by persist
    disposer,         \* [Forms -> "none" | "held" | "called"]: the disposer returned by persist
    data,             \* the record returned by the last serialize call
    calls,            \* special-handler invocations made by the last deserialize
    writes,           \* elements applyValues was invoked on by the last deserialize
    accessed,         \* storage accesses made by the last operation: <<store, op, key>>
    err,              \* outcome of the last operation: "none", "config", "parse", "dom"
    last              \* the last operation and the form it was applied to

vars == <<form, config, localStorage, sessionStorage, windowListeners,
          submitListeners, disposer, data, calls, writes, accessed, err, last>>

-----------------------------------------------------------------------------
(* JavaScript values held in a record: strings, booleans, undefined.       *)

Str(s) == [k |-> "str", s |-> s, b |-> FALSE]
Bool(b) == [k |-> "bool", s |-> "", b |-> b]
Undefined == [k |-> "undef", s |-> "", b |-> FALSE]

\* String(v): the conversion applied by the DOM setters of value
JSString(v) ==
    IF v.k = "str" THEN v.s
    ELSE IF v.k = "bool" THEN (IF v.b THEN "true" ELSE "false")
    ELSE "undefined"

\* Boolean(v): the conversion applied by the DOM setter of checked
JSBoolean(v) ==
    IF v.k = "str" THEN v.s # ""
    ELSE IF v.k = "bool" THEN v.b
    ELSE FALSE

\* values[index] with a 0-based index; undefined when out of range
At(values, index) ==
    IF index + 1 \in DOMAIN values THEN values[index + 1] ELSE Undefined

-----------------------------------------------------------------------------
(* Form elements.                                                          *)

Option(v, sel) == [value |-> v, selected |-> sel]

Input(type, name, value, checked) ==
    [tag |-> "INPUT", type |-> type, name |-> name, value |-> value,
     checked |-> checked, options |-> <<>>]

Textarea(name, value) ==
    [tag |-> "TEXTAREA", type |-> "textarea", name |-> name, value |-> value,
     checked |-> FALSE, options |-> <<>>]

Select(multiple, name, options) ==
    [tag |-> "SELECT", type |-> IF multiple THEN "select-multiple" ELSE "select-one",
     name |-> name, value |-> "", checked |-> FALSE, options |-> options]

Button(name) ==
    [tag |-> "BUTTON", type |-> "submit", name |-> name, value |-> "",
     checked |-> FALSE, options |-> <<>>]

\* select.multiple
Multiple(element) == element.type = "select-multiple"

\* select.value: the value of the first selected option, "" when there is none
SelectValue(element) ==
    LET sel == {i \in DOMAIN element.options : element.options[i].selected}
    IN IF sel = {} THEN ""
       ELSE element.options[CHOOSE i \in sel : \A j \in sel : i <= j].value

-----------------------------------------------------------------------------
(* Field Filter.                                                           *)

Includes(seq, x) == \E i \in DOMAIN seq : seq[i] = x

NoFilter == [present |-> FALSE, matches |-> {}]
Filter(S) == [present |-> TRUE, matches |-> S]

\* isNameFiltered with the allow-list consulted before the deny-list
isNameFilteredIncludeFirst(name, include, exclude) ==
    IF name = "" THEN TRUE
    ELSE IF Len(include) > 0 THEN ~Includes(include, name)
    ELSE IF Includes(exclude, name) THEN TRUE
    ELSE FALSE

isNameFiltered(name, include, exclude) ==
    IF name = "" THEN TRUE
    ELSE IF Includes(exclude, name) THEN TRUE
    ELSE IF Len(include) > 0 /\ ~Includes(include, name) THEN TRUE
    ELSE FALSE

\* element predicates are modelled by the set of element positions they accept
isElementFiltered(i, includeFilter, excludeFilter) ==
    IF excludeFilter.present /\ i \in excludeFilter.matches THEN TRUE
    ELSE IF includeFilter.present /\ i \notin includeFilter.matches THEN TRUE
    ELSE FALSE

-----------------------------------------------------------------------------
(* Serializer.  A record is the sequence of its entries in key insertion   *)
(* order, each entry a key and its sequence of values.                     *)

HasKey(dict, key) == \E i \in DOMAIN dict : dict[i].key = key

Get(dict, key) ==
    dict[CHOOSE i \in DOMAIN dict : dict[i].key = key].vals

Keys(dict) == {dict[i].key : i \in DOMAIN dict}

\* pushToArray without the test for the empty string
pushToArrayKeepsEmpty(dict, key, value) ==
    LET d1 == IF ~HasKey(dict, key)
              THEN Append(dict, [key |-> key, vals |-> <<>>])
              ELSE dict
    IN [i \in DOMAIN d1 |->
           IF d1[i].key = key
           THEN [d1[i] EXCEPT !.vals = Append(@, value)]
           ELSE d1[i]]

pushToArray(dict, key, value) ==
    IF value = Str("") THEN dict
    ELSE LET d1 == IF ~HasKey(dict, key)
                   THEN Append(dict, [key |-> key, vals |-> <<>>])
                   ELSE dict
         IN [i \in DOMAIN d1 |->
                IF d1[i].key = key
                THEN [d1[i] EXCEPT !.vals = Append(@, value)]
                ELSE d1[i]]

Push(i, key, value) == [el |-> i, key |-> key, value |-> value]

RECURSIVE SelectedOptionPushes(_, _, _, _)
SelectedOptionPushes(i, name, options, j) ==
    IF j > Len(options) THEN <<>>
    ELSE (IF options[j].selected
          THEN <<Push(i, name, Str(options[j].value))>>
          ELSE <<>>) \o SelectedOptionPushes(i, name, options, j + 1)

\* the hard exclusion covering password inputs only
isSecretPasswordOnly(element) ==
    element.tag = "INPUT" /\ element.type = "password"

\* the hard exclusion of password and file inputs
isSecret(element) ==
    element.tag = "INPUT" /\ element.type \in {"password", "file"}

\* the pushToArray calls one iteration of the loop of serialize makes
ElementPushes(f, cfg, i) ==
    LET element == f.elements[i]
        tag == element.tag
        type == element.type
    IN IF isSecret(element) THEN <<>>
       ELSE IF isNameFiltered(element.name, cfg.include, cfg.exclude)
               \/ isElementFiltered(i, cfg.includeFilter, cfg.excludeFilter)
       THEN <<>>
       ELSE IF tag = "INPUT" THEN
               IF type = "radio" THEN
                   IF element.checked
                   THEN <<Push(i, element.name, Str(element.value))>>
                   ELSE <<>>
               ELSE IF type = "checkbox" THEN
                   <<Push(i, element.name, Bool(element.checked))>>
               ELSE <<Push(i, element.name, Str(element.value))>>
       ELSE IF tag = "TEXTAREA" THEN
               <<Push(i, element.name, Str(element.value))>>
       ELSE IF tag = "SELECT" THEN
               IF Multiple(element)
               THEN SelectedOptionPushes(i, element.name, element.options, 1)
               ELSE <<Push(i, element.name, Str(SelectValue(element)))>>
       ELSE <<>>

RECURSIVE Pushes(_, _, _)
Pushes(f, cfg, i) ==
    IF i > Len(f.elements) THEN <<>>
    ELSE ElementPushes(f, cfg, i) \o Pushes(f, cfg, i + 1)

RECURSIVE PushAll(_, _, _)
PushAll(dict, pushes, j) ==
    IF j > Len(pushes) THEN dict
    ELSE PushAll(pushToArray(dict, pushes[j].key, pushes[j].value), pushes, j + 1)

serialize(f, cfg) == PushAll(<<>>, Pushes(f, cfg, 1), 1)

-----------------------------------------------------------------------------
(* Value application.  applyValues works on the element collection because *)
(* checking a radio button unchecks the other radios of its group.         *)

OK(els) == [els |-> els, err |-> "none"]
Fail(els, e) == [els |-> els, err |-> e]

\* input.checked = b
SetChecked(els, idx, b) ==
    [i \in DOMAIN els |->
        IF i = idx THEN [els[i] EXCEPT !.checked = b]
        ELSE IF b /\ els[idx].type = "radio" /\ els[i].tag = "INPUT"
                /\ els[i].type = "radio" /\ els[i].name = els[idx].name
                /\ els[idx].name # ""
             THEN [els[i] EXCEPT !.checked = FALSE]
        ELSE els[i]]

\* select.value = s on a single select: the first option with that value
\* becomes the selected one, or none when no option has it
SetSelectValue(element, s) ==
    LET hit == {j \in DOMAIN element.options : element.options[j].value = s}
        first == IF hit = {} THEN 0 ELSE CHOOSE j \in hit : \A m \in hit : j <= m
    IN [element EXCEPT !.options =
           [j \in DOMAIN element.options |->
               [element.options[j] EXCEPT !.selected = (j = first)]]]

\* applyValues treating a multi-select like a single select
applyValuesNoMultiple(els, idx, values, index) ==
    LET element == els[idx]
        tag == element.tag
        type == element.type
    IN IF tag = "INPUT" THEN
           IF type = "radio" THEN
               OK(SetChecked(els, idx, Str(element.value) = At(values, 0)))
           ELSE IF type = "checkbox" THEN
               OK(SetChecked(els, idx, JSBoolean(At(values, index))))
           ELSE IF type = "file" /\ JSString(At(values, index)) # "" THEN
               Fail(els, "dom")
           ELSE OK([els EXCEPT ![idx].value = JSString(At(values, index))])
       ELSE IF tag = "TEXTAREA" THEN
           OK([els EXCEPT ![idx].value = JSString(At(values, index))])
       ELSE IF tag = "SELECT" THEN
           OK([els EXCEPT ![idx] = SetSelectValue(element, JSString(At(values, index)))])
       ELSE OK(els)

applyValues(els, idx, values, index) ==
    LET element == els[idx]
        tag == element.tag
        type == element.type
    IN IF tag = "INPUT" THEN
           IF type = "radio" THEN
               OK(SetChecked(els, idx, Str(element.value) = At(values, 0)))
           ELSE IF type = "checkbox" THEN
               OK(SetChecked(els, idx, JSBoolean(At(values, index))))
           ELSE IF type = "file" /\ JSString(At(values, index)) # "" THEN
               \* the value setter of a file input rejects a non-empty string
               Fail(els, "dom")
           ELSE OK([els EXCEPT ![idx].value = JSString(At(values, index))])
       ELSE IF tag = "TEXTAREA" THEN
           OK([els EXCEPT ![idx].value = JSString(At(values, index))])
       ELSE IF tag = "SELECT" THEN
           IF Multiple(element) THEN
               OK([els EXCEPT ![idx].options =
                      [j \in DOMAIN element.options |->
                          [element.options[j] EXCEPT
                              !.selected = Includes(values, Str(element.options[j].value))]]])
           ELSE OK([els EXCEPT ![idx] = SetSelectValue(element, JSString(At(values, index)))])
       ELSE OK(els)

-----------------------------------------------------------------------------
(* Special-Handler Dispatcher.  A handler table is the sequence of its     *)
(* keys in insertion order; the handler registered under a key is named by *)
(* the key.                                                                *)

NoHandlers == [present |-> FALSE, keys |-> <<>>]
Handlers(keys) == [present |-> TRUE, keys |-> keys]

Call(fnName, value) == [fn |-> fnName, value |-> value]

RECURSIVE HandlerCalls(_, _, _)
HandlerCalls(fnName, values, j) ==
    IF j > Len(values) THEN <<>>
    ELSE <<Call(fnName, values[j])>> \o HandlerCalls(fnName, values, j + 1)

\* the loop of applySpecialHandlers from the j-th key of options.valueFunctions
RECURSIVE SpecialLoop(_, _, _)
SpecialLoop(d, options, j) ==
    IF j > Len(options.valueFunctions.keys) THEN [handled |-> <<>>, calls |-> <<>>]
    ELSE LET fnName == options.valueFunctions.keys[j]
             rest == SpecialLoop(d, options, j + 1)
         IN IF HasKey(d, fnName)
                  /\ ~isNameFiltered(fnName, options.include, options.exclude)
            THEN [handled |-> <<fnName>> \o rest.handled,
                  calls |-> HandlerCalls(fnName, Get(d, fnName), 1) \o rest.calls]
            ELSE rest

applySpecialHandlers(d, f, options) ==
    IF ~options.valueFunctions.present THEN [handled |-> <<>>, calls |-> <<>>]
    ELSE SpecialLoop(d, options, 1)

\* A property read on the handler table: the function registered under that
\* key, an object with no enumerable key of its own, or undefined.
TableProperty(table, p) ==
    IF Includes(table.keys, p) THEN Handlers(<<>>) ELSE NoHandlers

\* deserialize passes config.valueFunctions where applySpecialHandlers
\* expects the options object: the properties valueFunctions, include and
\* exclude are then read on the handler table itself.
SpecialHandlerArgument(cfg) ==
    [valueFunctions |-> TableProperty(cfg.valueFunctions, "valueFunctions"),
     include |-> <<>>,
     exclude |-> <<>>]

-----------------------------------------------------------------------------
(* Deserializer.                                                           *)

\* positions of the elements named name that pass the element filter
RECURSIVE MatchingInputs(_, _, _, _)
MatchingInputs(f, name, cfg, i) ==
    IF i > Len(f.elements) THEN <<>>
    ELSE (IF f.elements[i].name = name
             /\ ~isElementFiltered(i, cfg.includeFilter, cfg.excludeFilter)
          THEN <<i>> ELSE <<>>) \o MatchingInputs(f, name, cfg, i + 1)

\* the applyValues calls of the generic path, in execution order
RECURSIVE GenericCalls(_, _, _, _, _)
GenericCalls(f, d, cfg, speciallyHandled, n) ==
    IF n > Len(d) THEN <<>>
    ELSE LET name == d[n].key
             inputs == MatchingInputs(f, name, cfg, 1)
         IN (IF isNameFiltered(name, cfg.include, cfg.exclude)
                \/ Includes(speciallyHandled, name)
             THEN <<>>
             ELSE [j \in 1..Len(inputs) |->
                      [el |-> inputs[j], vals |-> d[n].vals, index |-> j - 1]])
            \o GenericCalls(f, d, cfg, speciallyHandled, n + 1)

\* run the applyValues calls in order; an exception ends the run
RECURSIVE ApplyAll(_, _, _, _)
ApplyAll(els, work, j, written) ==
    IF j > Len(work) THEN [elements |-> els, writes |-> written, err |-> "none"]
    ELSE LET r == applyValues(els, work[j].el, work[j].vals, work[j].index)
         IN IF r.err # "none"
            THEN [elements |-> r.els, writes |-> written \cup {work[j].el}, err |-> r.err]
            ELSE ApplyAll(r.els, work, j + 1, written \cup {work[j].el})

deserialize(f, d, cfg) ==
    LET special == IF cfg.valueFunctions.present
                   THEN applySpecialHandlers(d, f, SpecialHandlerArgument(cfg))
                   ELSE [handled |-> <<>>, calls |-> <<>>]
        run == ApplyAll(f.elements, GenericCalls(f, d, cfg, special.handled, 1), 1, {})
    IN [elements |-> run.elements, calls |-> special.calls,
        writes |-> run.writes, err |-> run.err]

-----------------------------------------------------------------------------
(* JSON text.  A stored text is the sequence of its tokens; JSONstringify  *)
(* and JSONparse cover the grammar of records: an object whose members are *)
(* arrays of strings and booleans.                                         *)

Tok(t, v) == [t |-> t, v |-> v]
Punct(c) == Tok(c, "")

ValueToken(v) ==
    IF v.k = "str" THEN Tok("string", v.s)
    ELSE IF v.b THEN Punct("true") ELSE Punct("false")

RECURSIVE StringifyItems(_, _)
StringifyItems(values, j) ==
    IF j > Len(values) THEN <<>>
    ELSE (IF j > 1 THEN <<Punct(",")>> ELSE <<>>)
         \o <<ValueToken(values[j])>> \o StringifyItems(values, j + 1)

RECURSIVE StringifyMembers(_, _)
StringifyMembers(d, n) ==
    IF n > Len(d) THEN <<>>
    ELSE (IF n > 1 THEN <<Punct(",")>> ELSE <<>>)
         \o <<Tok("string", d[n].key), Punct(":"), Punct("[")>>
         \o StringifyItems(d[n].vals, 1) \o <<Punct("]")>>
         \o StringifyMembers(d, n + 1)

JSONstringify(d) == <<Punct("{")>> \o StringifyMembers(d, 1) \o <<Punct("}")>>

TokAt(text, pos) == IF pos \in DOMAIN text THEN text[pos] ELSE Punct("eof")

ParseFail == [ok |-> FALSE, pos |-> 0, value |-> <<>>]
ParseOK(pos, value) == [ok |-> TRUE, pos |-> pos, value |-> value]

RECURSIVE ParseItems(_, _, _)
ParseItems(text, pos, acc) ==
    LET t == TokAt(text, pos)
        sep == TokAt(text, pos + 1)
        acc1 == Append(acc, IF t.t = "string" THEN Str(t.v) ELSE Bool(t.t = "true"))
    IN IF t.t \notin {"string", "true", "false"} THEN ParseFail
       ELSE IF sep.t = "," THEN ParseItems(text, pos + 2, acc1)
       ELSE IF sep.t = "]" THEN ParseOK(pos + 2, acc1)
       ELSE ParseFail

ParseArray(text, pos) ==
    IF TokAt(text, pos).t # "[" THEN ParseFail
    ELSE IF TokAt(text, pos + 1).t = "]" THEN ParseOK(pos + 2, <<>>)
    ELSE ParseItems(text, pos + 1, <<>>)

\* obj[key] = vals: a repeated key keeps its place and takes the later value
SetKey(d, key, vals) ==
    IF HasKey(d, key)
    THEN [i \in DOMAIN d |-> IF d[i].key = key THEN [key |-> key, vals |-> vals] ELSE d[i]]
    ELSE Append(d, [key |-> key, vals |-> vals])

RECURSIVE ParseMembers(_, _, _)
ParseMembers(text, pos, acc) ==
    LET k == TokAt(text, pos)
        arr == ParseArray(text, pos + 2)
        acc1 == SetKey(acc, k.v, arr.value)
    IN IF k.t # "string" \/ TokAt(text, pos + 1).t # ":" THEN ParseFail
       ELSE IF ~arr.ok THEN ParseFail
       ELSE IF TokAt(text, arr.pos).t = "," THEN ParseMembers(text, arr.pos + 1, acc1)
       ELSE IF TokAt(text, arr.pos).t = "}" THEN ParseOK(arr.pos + 1, acc1)
       ELSE ParseFail

JSONparse(text) ==
    LET r == IF TokAt(text, 1).t # "{" THEN ParseFail
             ELSE IF TokAt(text, 2).t = "}" THEN ParseOK(3, <<>>)
             ELSE ParseMembers(text, 2, <<>>)
    IN IF r.ok /\ r.pos = Len(text) + 1 THEN r ELSE ParseFail

-----------------------------------------------------------------------------
(* Storage Lifecycle Manager.  The operations transform an environment:    *)
(* the forms, the two stores, and what the operation did and returned.     *)

Env ==
    [form |-> form, local |-> localStorage, session |-> sessionStorage,
     acc |-> {}, err |-> "none", calls |-> <<>>, writes |-> {}]

\* getStorageKey preferring the form identifier to the uuid
getStorageKeyPrefersId(f, uuid) ==
    IF uuid = "" /\ f.id = "" THEN [err |-> "config", key |-> ""]
    ELSE [err |-> "none", key |-> "form#" \o (IF f.id # "" THEN f.id ELSE uuid)]

\* getStorageKey falling back to the bare prefix instead of failing
getStorageKeyNoThrow(f, uuid) ==
    [err |-> "none", key |-> "form#" \o (IF uuid # "" THEN uuid ELSE f.id)]

\* a uuid of "" stands for an absent, null or empty uuid
getStorageKey(f, uuid) ==
    IF uuid = "" /\ f.id = "" THEN [err |-> "config", key |-> ""]
    ELSE [err |-> "none", key |-> "form#" \o (IF uuid # "" THEN uuid ELSE f.id)]

\* the durable store whatever useSessionStorage is
StorageOfAlwaysLocal(cfg) == "local"

\* config.useSessionStorage ? sessionStorage : localStorage
StorageOf(cfg) == IF cfg.useSessionStorage THEN "session" ELSE "local"

setItem(env, store, key, text) ==
    [env EXCEPT ![store] = [k \in DOMAIN @ \cup {key} |-> IF k = key THEN text ELSE @[k]],
                !.acc = @ \cup {<<store, "setItem", key>>}]

removeItem(env, store, key) ==
    [env EXCEPT ![store] = [k \in DOMAIN @ \ {key} |-> @[k]],
                !.acc = @ \cup {<<store, "removeItem", key>>}]

\* the text under key, the empty text standing for null
getItem(env, store, key) ==
    IF key \in DOMAIN env[store] THEN env[store][key] ELSE <<>>

save(env, f, cfg) ==
    LET d == serialize(env.form[f], cfg)
        storage == StorageOf(cfg)
        k == getStorageKey(env.form[f], cfg.uuid)
    IN IF k.err # "none" THEN [env EXCEPT !.err = k.err]
       ELSE setItem(env, storage, k.key, JSONstringify(d))

\* load without the guard on an absent record
loadParsesAbsent(env, f, cfg) ==
    LET storage == StorageOf(cfg)
        k == getStorageKey(env.form[f], cfg.uuid)
        json == getItem(env, storage, k.key)
        read == [env EXCEPT !.acc = @ \cup {<<storage, "getItem", k.key>>}]
        parsed == JSONparse(json)
        r == deserialize(env.form[f], parsed.value, cfg)
    IN IF k.err # "none" THEN [env EXCEPT !.err = k.err]
       ELSE IF ~parsed.ok THEN [read EXCEPT !.err = "parse"]
       ELSE [read EXCEPT !.form[f].elements = r.elements,
                         !.calls = r.calls, !.writes = r.writes,
                         !.err = IF r.err # "none" THEN r.err ELSE @]

\* load treating a record that does not parse as an absent one
loadSkipsMalformed(env, f, cfg) ==
    LET storage == StorageOf(cfg)
        k == getStorageKey(env.form[f], cfg.uuid)
        json == getItem(env, storage, k.key)
        read == [env EXCEPT !.acc = @ \cup {<<storage, "getItem", k.key>>}]
        parsed == JSONparse(json)
        r == deserialize(env.form[f], parsed.value, cfg)
    IN IF k.err # "none" THEN [env EXCEPT !.err = k.err]
       ELSE IF Len(json) = 0 \/ ~parsed.ok THEN read
       ELSE [read EXCEPT !.form[f].elements = r.elements,
                         !.calls = r.calls, !.writes = r.writes,
                         !.err = IF r.err # "none" THEN r.err ELSE @]

load(env, f, cfg) ==
    LET storage == StorageOf(cfg)
        k == getStorageKey(env.form[f], cfg.uuid)
        json == getItem(env, storage, k.key)
        read == [env EXCEPT !.acc = @ \cup {<<storage, "getItem", k.key>>}]
        parsed == JSONparse(json)
        r == deserialize(env.form[f], parsed.value, cfg)
    IN IF k.err # "none" THEN [env EXCEPT !.err = k.err]
       ELSE IF Len(json) = 0 THEN read
       ELSE IF ~parsed.ok THEN [read EXCEPT !.err = "parse"]
       ELSE [read EXCEPT !.form[f].elements = r.elements,
                         !.calls = r.calls, !.writes = r.writes,
                         !.err = IF r.err # "none" THEN r.err ELSE @]

clearStorage(env, f, cfg) ==
    LET storage == StorageOf(cfg)
        k == getStorageKey(env.form[f], cfg.uuid)
    IN IF k.err # "none" THEN [env EXCEPT !.err = k.err]
       ELSE removeItem(env, storage, k.key)

-----------------------------------------------------------------------------
(* Listeners of a persist session.                                         *)

Listener(event, fn, f) == [event |-> event, fn |-> fn, owner |-> f]

addEventListener(list, l) ==
    IF Includes(list, l) THEN list ELSE Append(list, l)

\* removal by event and function name, whichever session registered it
removeEventListenerAnyOwner(list, l) ==
    SelectSeq(list, LAMBDA x : x.event # l.event \/ x.fn # l.fn)

removeEventListener(list, l) ==
    SelectSeq(list, LAMBDA x : x # l)

\* const saveForm = () => save(form, config)
saveForm(st, f) ==
    [st EXCEPT !.env = save(st.env, f, config[f])]

\* saveFormBeforeUnload without the removal of the unload listener
saveFormBeforeUnloadKeepsUnload(st, f) ==
    saveForm(st, f)

\* removes the unload listener, then saves
saveFormBeforeUnload(st, f) ==
    saveForm([st EXCEPT !.listeners =
                 removeEventListener(@, Listener("unload", "saveForm", f))], f)

\* window dispatches event: the listeners registered for it run in
\* registration order; one removed meanwhile is not run
RECURSIVE Dispatch(_, _, _, _)
Dispatch(st, snapshot, event, j) ==
    IF j > Len(snapshot) THEN st
    ELSE LET l == snapshot[j]
         IN IF l.event # event \/ ~Includes(st.listeners, l)
            THEN Dispatch(st, snapshot, event, j + 1)
            ELSE Dispatch(IF l.fn = "saveForm" THEN saveForm(st, l.owner)
                          ELSE saveFormBeforeUnload(st, l.owner),
                          snapshot, event, j + 1)

\* the submit listener without the call of clearStorage
onSubmitKeepsStorage(st, f) ==
    LET l1 == removeEventListener(st.listeners, Listener("popstate", "saveForm", f))
        l2 == removeEventListener(l1, Listener("beforeunload", "saveFormBeforeUnload", f))
        l3 == removeEventListener(l2, Listener("unload", "saveForm", f))
    IN [st EXCEPT !.listeners = l3]

\* the listener persist puts on the form's submit event
onSubmit(st, f) ==
    LET l1 == removeEventListener(st.listeners, Listener("popstate", "saveForm", f))
        l2 == removeEventListener(l1, Listener("beforeunload", "saveFormBeforeUnload", f))
        l3 == removeEventListener(l2, Listener("unload", "saveForm", f))
    IN [st EXCEPT !.env = clearStorage(st.env, f, config[f]), !.listeners = l3]

\* the disposer leaving the popstate listener in place
disposeKeepsPopstate(st, f) ==
    LET s1 == saveForm(st, f)
        l2 == removeEventListener(s1.listeners, Listener("beforeunload", "saveFormBeforeUnload", f))
        l3 == removeEventListener(l2, Listener("unload", "saveForm", f))
    IN [s1 EXCEPT !.listeners = l3]

\* the function persist returns
dispose(st, f) ==
    LET s1 == saveForm(st, f)
        l1 == removeEventListener(s1.listeners, Listener("popstate", "saveForm", f))
        l2 == removeEventListener(l1, Listener("beforeunload", "saveFormBeforeUnload", f))
        l3 == removeEventListener(l2, Listener("unload", "saveForm", f))
    IN [s1 EXCEPT !.listeners = l3]

\* persist installing the submit listener whatever saveOnSubmit is
persistAlwaysDiscards(st, f) ==
    LET cfg == config[f]
        e1 == load(st.env, f, cfg)
        l1 == addEventListener(st.listeners, Listener("popstate", "saveForm", f))
        l2 == addEventListener(l1, Listener("beforeunload", "saveFormBeforeUnload", f))
        l3 == addEventListener(l2, Listener("unload", "saveForm", f))
    IN IF e1.err # "none" THEN [st EXCEPT !.env = e1]
       ELSE [env |-> e1, listeners |-> l3, submit |-> st.submit \cup {f},
             returned |-> TRUE]

\* persist: st.returned tells whether a disposer was returned
persist(st, f) ==
    LET cfg == config[f]
        e1 == load(st.env, f, cfg)
        l1 == addEventListener(st.listeners, Listener("popstate", "saveForm", f))
        l2 == addEventListener(l1, Listener("beforeunload", "saveFormBeforeUnload", f))
        l3 == addEventListener(l2, Listener("unload", "saveForm", f))
    IN IF e1.err # "none" THEN [st EXCEPT !.env = e1]
       ELSE [env |-> e1, listeners |-> l3,
             submit |-> IF ~cfg.saveOnSubmit THEN st.submit \cup {f} ELSE st.submit,
             returned |-> TRUE]

-----------------------------------------------------------------------------
(* Bounds and input sets.                                                  *)

MaxElems == 2

\* the forms of the page
Forms == DOMAIN form

Options(uuid, uss, sos, vf, inc, exc, incF, excF) ==
    [uuid |-> uuid, useSessionStorage |-> uss, saveOnSubmit |-> sos,
     valueFunctions |-> vf, include |-> inc, exclude |-> exc,
     includeFilter |-> incF, excludeFilter |-> excF]

\* the options every operation defaults to
DefaultOptions == Options("", FALSE, FALSE, NoHandlers, <<>>, <<>>, NoFilter, NoFilter)

\* what the user can type into a text input
TextValues == {"", "alice"}

Entry(key, vals) == [key |-> key, vals |-> vals]

Malformed == <<Punct("{")>>

\* what the stores may hold under the form's key when the page loads
PriorTexts ==
    {<<>>,
     JSONstringify(<<Entry("name", <<Str("bob")>>), Entry("agree", <<Bool(TRUE)>>)>>),
     Malformed}

OtherText == JSONstringify(<<Entry("name", <<Str("zed")>>)>>)

UnrelatedKey == "prefs"

UnrelatedText == <<Tok("string", "dark")>>

Store(key, text) ==
    [k \in {UnrelatedKey} \cup (IF Len(text) > 0 THEN {key} ELSE {}) |->
        IF k = UnrelatedKey THEN UnrelatedText ELSE text]

-----------------------------------------------------------------------------
(* The page: a form and the options its caller uses.                       *)

Commit(env) ==
    /\ form' = env.form
    /\ localStorage' = env.local
    /\ sessionStorage' = env.session
    /\ accessed' = env.acc
    /\ err' = env.err
    /\ calls' = env.calls
    /\ writes' = env.writes

Op(op, f) == [op |-> op, f |-> f]

Init ==
    /\ \E id \in {"", "myForm"} :
          form = [f \in {1} |->
                    [id |-> id,
                     elements |-> <<Input("text", "name", "", FALSE),
                                    Input("checkbox", "agree", "on", FALSE)>>]]
    /\ \E uuid \in {"", "custom"}, uss \in BOOLEAN, sos \in BOOLEAN :
          config = [f \in {1} |->
                      [DefaultOptions EXCEPT !.uuid = uuid,
                                             !.useSessionStorage = uss,
                                             !.saveOnSubmit = sos]]
    /\ LET k == getStorageKey(form[1], config[1].uuid)
       IN IF k.err # "none"
          THEN /\ localStorage = Store("", <<>>)
               /\ sessionStorage = Store("", <<>>)
          ELSE \E pre \in PriorTexts :
                 /\ localStorage =
                       Store(k.key, IF config[1].useSessionStorage THEN OtherText ELSE pre)
                 /\ sessionStorage =
                       Store(k.key, IF config[1].useSessionStorage THEN pre ELSE OtherText)
    /\ windowListeners = <<>>
    /\ submitListeners = {}
    /\ disposer = [f \in DOMAIN form |-> "none"]
    /\ data = <<>>
    /\ calls = <<>>
    /\ writes = {}
    /\ accessed = {}
    /\ err = "none"
    /\ last = Op("init", 0)

Session == [env |-> Env, listeners |-> windowListeners,
            submit |-> submitListeners, returned |-> FALSE]

Persist(f) ==
    /\ disposer[f] = "none"
    /\ \E r \in {persist(Session, f)} :
          /\ Commit(r.env)
          /\ windowListeners' = r.listeners
          /\ submitListeners' = r.submit
          /\ disposer' = IF r.returned THEN [disposer EXCEPT ![f] = "held"] ELSE disposer
    /\ last' = Op("persist", f)
    /\ UNCHANGED <<config, data>>

\* the window fires popstate, beforeunload or unload
Signal(event) ==
    /\ \E r \in {Dispatch(Session, windowListeners, event, 1)} :
          /\ Commit(r.env)
          /\ windowListeners' = r.listeners
    /\ last' = Op(event, 0)
    /\ UNCHANGED <<config, submitListeners, disposer, data>>

Popstate == Signal("popstate")

BeforeUnload == Signal("beforeunload")

Unload == Signal("unload")

\* the form fires submit
Submit(f) ==
    /\ \E r \in {IF f \in submitListeners THEN onSubmit(Session, f) ELSE Session} :
          /\ Commit(r.env)
          /\ windowListeners' = r.listeners
    /\ last' = Op("submit", f)
    /\ UNCHANGED <<config, submitListeners, disposer, data>>

\* the caller calls the disposer persist returned
Dispose(f) ==
    /\ disposer[f] # "none"
    /\ \E r \in {dispose(Session, f)} :
          /\ Commit(r.env)
          /\ windowListeners' = r.listeners
    /\ disposer' = [disposer EXCEPT ![f] = "called"]
    /\ last' = Op("dispose", f)
    /\ UNCHANGED <<config, submitListeners, data>>

Save(f) ==
    /\ \E e \in {save(Env, f, config[f])} : Commit(e)
    /\ last' = Op("save", f)
    /\ UNCHANGED <<config, windowListeners, submitListeners, disposer, data>>

Load(f) ==
    /\ \E e \in {load(Env, f, config[f])} : Commit(e)
    /\ last' = Op("load", f)
    /\ UNCHANGED <<config, windowListeners, submitListeners, disposer, data>>

ClearStorage(f) ==
    /\ \E e \in {clearStorage(Env, f, config[f])} : Commit(e)
    /\ last' = Op("clearStorage", f)
    /\ UNCHANGED <<config, windowListeners, submitListeners, disposer, data>>

\* the user types into a text input or toggles a checkbox
UserEdit(f) ==
    /\ \E i \in DOMAIN form[f].elements :
          LET el == form[f].elements[i]
          IN \/ /\ el.tag = "INPUT" /\ el.type = "text"
                /\ \E v \in TextValues \ {el.value} :
                      form' = [form EXCEPT ![f].elements[i].value = v]
             \/ /\ el.tag = "INPUT" /\ el.type = "checkbox"
                /\ form' = [form EXCEPT ![f].elements[i].checked = ~el.checked]
    /\ last' = Op("edit", f)
    /\ calls' = <<>>
    /\ writes' = {}
    /\ accessed' = {}
    /\ err' = "none"
    /\ UNCHANGED <<config, localStorage, sessionStorage, windowListeners,
                   submitListeners, disposer, data>>

Next ==
    \/ \E f \in Forms : Persist(f)
    \/ Popstate
    \/ BeforeUnload
    \/ Unload
    \/ \E f \in Forms : Submit(f)
    \/ \E f \in Forms : Dispose(f)
    \/ \E f \in Forms : Save(f)
    \/ \E f \in Forms : Load(f)
    \/ \E f \in Forms : ClearStorage(f)
    \/ \E f \in Forms : UserEdit(f)

Spec == Init /\ [][Next]_vars

-----------------------------------------------------------------------------
(* Direct calls of serialize and deserialize on bounded forms, records and *)
(* options.  A second form, when there is one, is the blank copy of the    *)
(* first.                                                                  *)

ApiElements ==
    {Input("text", "a", "", FALSE), Input("text", "a", "v1", FALSE),
     Input("text", "b", "v2", FALSE),
     Input("password", "a", "pw", FALSE), Input("file", "b", "cv.pdf", FALSE),
     Input("checkbox", "a", "on", FALSE), Input("checkbox", "b", "on", TRUE),
     Input("radio", "a", "v1", TRUE), Input("radio", "a", "v2", FALSE),
     Textarea("b", ""),
     Select(FALSE, "b", <<Option("v1", TRUE), Option("v2", FALSE)>>),
     Select(TRUE, "a", <<Option("v1", TRUE), Option("v2", TRUE), Option("", TRUE)>>)}

\* the page keeps at most one radio of a group checked
RadioGroupsValid(els) ==
    \A i, j \in DOMAIN els :
        (/\ i # j
         /\ els[i].type = "radio" /\ els[j].type = "radio"
         /\ els[i].name = els[j].name
         /\ els[i].checked) => ~els[j].checked

ApiForms ==
    {[id |-> "f", elements |-> els] :
        els \in {e \in UNION {[1..n -> ApiElements] : n \in 1..MaxElems} :
                    RadioGroupsValid(e)}}

ApiOptions ==
    {DefaultOptions,
     [DefaultOptions EXCEPT !.include = <<"a", "b">>, !.exclude = <<"b">>],
     [DefaultOptions EXCEPT !.include = <<"a", "b">>],
     [DefaultOptions EXCEPT !.include = <<"b">>, !.includeFilter = Filter({1})],
     [DefaultOptions EXCEPT !.includeFilter = Filter({1, 2}), !.excludeFilter = Filter({1})],
     [DefaultOptions EXCEPT !.excludeFilter = Filter({2})],
     [DefaultOptions EXCEPT !.valueFunctions = Handlers(<<"a">>)],
     [DefaultOptions EXCEPT !.valueFunctions = Handlers(<<"valueFunctions", "b">>),
                            !.exclude = <<"a">>]}

ApiRecords ==
    {<<>>,
     <<Entry("a", <<Str("v1"), Str("v2")>>)>>,
     <<Entry("b", <<Bool(TRUE)>>), Entry("a", <<Str("v2")>>)>>}

BlankElement(el) ==
    [el EXCEPT !.value = IF el.type \in {"checkbox", "radio"} THEN @ ELSE "",
               !.checked = FALSE,
               !.options = [j \in DOMAIN @ |-> [@[j] EXCEPT !.selected = FALSE]]]

Blank(f) == [f EXCEPT !.elements = [i \in DOMAIN @ |-> BlankElement(@[i])]]

InitCalls(forms, copies, options, records) ==
    /\ \E f \in forms : form = [n \in copies |-> IF n = 1 THEN f ELSE Blank(f)]
    /\ \E o \in options : config = [n \in copies |-> o]
    /\ data \in records
    /\ localStorage = Store("", <<>>)
    /\ sessionStorage = Store("", <<>>)
    /\ windowListeners = <<>>
    /\ submitListeners = {}
    /\ disposer = [f \in DOMAIN form |-> "none"]
    /\ calls = <<>>
    /\ writes = {}
    /\ accessed = {}
    /\ err = "none"
    /\ last = Op("init", 0)

InitApi == InitCalls(ApiForms, {1}, ApiOptions, ApiRecords)

\* data = FormPersistence.serialize(form, options)
Serialize(f) ==
    /\ data' = serialize(form[f], config[f])
    /\ last' = Op("serialize", f)
    /\ calls' = <<>>
    /\ writes' = {}
    /\ accessed' = {}
    /\ err' = "none"
    /\ UNCHANGED <<form, config, localStorage, sessionStorage, windowListeners,
                   submitListeners, disposer>>

\* FormPersistence.deserialize(form, data, options)
Deserialize(f) ==
    /\ \E r \in {deserialize(form[f], data, config[f])} :
          /\ form' = [form EXCEPT ![f].elements = r.elements]
          /\ calls' = r.calls
          /\ writes' = r.writes
          /\ err' = r.err
    /\ last' = Op("deserialize", f)
    /\ accessed' = {}
    /\ UNCHANGED <<config, localStorage, sessionStorage, windowListeners,
                   submitListeners, disposer, data>>

NextApi ==
    \/ \E f \in Forms : Serialize(f)
    \/ \E f \in Forms : Deserialize(f)

SpecApi == InitApi /\ [][NextApi]_vars

-----------------------------------------------------------------------------
(* The round-trip form: a text field, a checkbox and a multi-select under  *)
(* three distinct names, in every assignment of values.                    *)

MaxOptions == 2

ColorValues == <<"red", "blue", "green", "pink">>

RoundTripForms ==
    {[id |-> "f",
      elements |-> <<Input("text", "name", v, FALSE),
                     Input("checkbox", "agree", "on", c),
                     Select(TRUE, "color",
                            [j \in 1..MaxOptions |-> Option(ColorValues[j], j \in sel)])>>] :
        v \in {"", "alice", "true"}, c \in BOOLEAN, sel \in SUBSET (1..MaxOptions)}

InitRoundTrip == InitCalls(RoundTripForms, {1, 2}, {DefaultOptions}, {<<>>})

SpecRoundTrip == InitRoundTrip /\ [][NextApi]_vars

-----------------------------------------------------------------------------
(* Direct calls of save, load and clearStorage on the bounded forms and    *)
(* options, the stores holding nothing under the form's key at first.      *)

InitStore == InitCalls(ApiForms, {1}, ApiOptions, {<<>>})

NextStore ==
    \/ \E f \in Forms : Save(f)
    \/ \E f \in Forms : Load(f)
    \/ \E f \in Forms : ClearStorage(f)

SpecStore == InitStore /\ [][NextStore]_vars

-----------------------------------------------------------------------------
(* Two forms on one page, each with its own identifier, its own options    *)
(* and its own persist session.                                            *)

InitTwo ==
    /\ form = <<[id |-> "myForm", elements |-> <<Input("text", "name", "", FALSE)>>],
                [id |-> "other", elements |-> <<Input("checkbox", "agree", "on", FALSE)>>]>>
    /\ \E uss \in [{1, 2} -> BOOLEAN] :
          config = [f \in {1, 2} |-> [DefaultOptions EXCEPT !.useSessionStorage = uss[f]]]
    /\ localStorage = Store("", <<>>)
    /\ sessionStorage = Store("", <<>>)
    /\ windowListeners = <<>>
    /\ submitListeners = {}
    /\ disposer = [f \in DOMAIN form |-> "none"]
    /\ data = <<>>
    /\ calls = <<>>
    /\ writes = {}
    /\ accessed = {}
    /\ err = "none"
    /\ last = Op("init", 0)

SpecTwo == InitTwo /\ [][Next]_vars

-----------------------------------------------------------------------------
(* Properties.                                                             *)

Names == {"a", "b"}

ExpectedKey(f) ==
    IF config[f].uuid # "" THEN "form#" \o config[f].uuid ELSE "form#" \o form[f].id

SelectedStore(f) == IF config[f].useSessionStorage THEN sessionStorage ELSE localStorage

Armed(f) == \E i \in DOMAIN windowListeners : windowListeners[i].owner = f

ArmedFor(f, event) ==
    \E i \in DOMAIN windowListeners :
        windowListeners[i].owner = f /\ windowListeners[i].event = event

Signals == {"popstate", "beforeunload", "unload"}

\* what the selected store of form f holds under the form's key
Stored(f) ==
    IF ExpectedKey(f) \in DOMAIN SelectedStore(f)
    THEN SelectedStore(f)[ExpectedKey(f)] ELSE <<>>

IsPasswordOrFile(el) == el.tag = "INPUT" /\ (el.type = "password" \/ el.type = "file")

\* C1: Special handler exclusivity: after deserialize with a handler table
\* that defines a handler for field x, on a record that contains x (x not
\* excluded by include/exclude), the handler of x has been invoked once per
\* value of x, in sequence order, and the generic path wrote to no element
\* named x.
C1_SpecialHandlerExclusivity ==
    \A f \in Forms : \A x \in Names :
        (/\ last = Op("deserialize", f)
         /\ config[f].valueFunctions.present
         /\ Includes(config[f].valueFunctions.keys, x)
         /\ HasKey(data, x)
         /\ ~Includes(config[f].exclude, x)
         /\ (config[f].include = <<>> \/ Includes(config[f].include, x)))
        => /\ SelectSeq(calls, LAMBDA c : c.fn = x)
                = [j \in 1..Len(Get(data, x)) |-> Call(x, Get(data, x)[j])]
           /\ \A i \in writes : form[f].elements[i].name # x

\* C2: Round-trip: deserializing the record serialized from the text /
\* checkbox / multi-select form into its blank copy leaves the copy with the
\* same value, checked state and selected options as the original.
C2_RoundTrip ==
    (last = Op("deserialize", 2) /\ data = serialize(form[1], config[1]))
        => form[2].elements = form[1].elements

C2_Witness ==
    /\ last = Op("deserialize", 2)
    /\ data = serialize(form[1], config[1])
    /\ form[1].elements[1].value = "alice"
    /\ form[1].elements[2].checked
    /\ \A j \in DOMAIN form[1].elements[3].options : form[1].elements[3].options[j].selected
    /\ form[2].elements = form[1].elements
    /\ Len(data) = 3

\* C3: Submit discard: in a session created with saveOnSubmit false, right
\* after the form's submit signal the storage key is absent from the selected
\* store and no trigger of the session is armed; an unarmed session stays
\* unarmed, and a navigation or unload signal then leaves its key alone.
C3_SubmitDiscard ==
    /\ [](\A f \in Forms :
            (disposer[f] # "none" /\ ~config[f].saveOnSubmit /\ last = Op("submit", f))
                => (ExpectedKey(f) \notin DOMAIN SelectedStore(f) /\ ~Armed(f)))
    /\ [][\A f \in Forms :
            (disposer[f] # "none" /\ ~Armed(f))
                => /\ ~Armed(f)'
                   /\ last'.op \in Signals =>
                        /\ <<StorageOf(config[f]), "setItem", ExpectedKey(f)>> \notin accessed'
                        /\ Stored(f)' = Stored(f)]_vars

C3_Witness ==
    /\ last = Op("submit", 1)
    /\ disposer[1] = "held"
    /\ ~config[1].saveOnSubmit
    /\ form[1].elements[1].value = "bob"
    /\ ExpectedKey(1) \notin DOMAIN SelectedStore(1)
    /\ ~Armed(1)

\* C4: Submit retain: in a session created with saveOnSubmit true, a submit
\* signal changes neither store and detaches no trigger, and every armed
\* trigger still saves when its signal fires.
C4_SubmitRetain ==
    [][\A f \in Forms :
          (disposer[f] # "none" /\ config[f].saveOnSubmit)
              => /\ last' = Op("submit", f) =>
                     /\ localStorage' = localStorage
                     /\ sessionStorage' = sessionStorage
                     /\ windowListeners' = windowListeners
                 /\ \A ev \in Signals :
                     (ArmedFor(f, ev) /\ last' = Op(ev, 0)) =>
                         /\ <<StorageOf(config[f]), "setItem", ExpectedKey(f)>> \in accessed'
                         /\ ExpectedKey(f) \in DOMAIN SelectedStore(f)']_vars

C4_Witness ==
    /\ last = Op("submit", 1)
    /\ config[1].saveOnSubmit
    /\ disposer[1] = "held"
    /\ \A ev \in Signals : ArmedFor(1, ev)
    /\ ExpectedKey(1) \in DOMAIN SelectedStore(1)
    /\ JSONparse(SelectedStore(1)[ExpectedKey(1)]).value
          = <<Entry("name", <<Str("alice")>>), Entry("agree", <<Bool(TRUE)>>)>>

\* the keys under which two successive contents of a store differ
ChangedKeys(s, t) ==
    {k \in DOMAIN s \cup DOMAIN t :
        k \notin DOMAIN s \/ k \notin DOMAIN t \/ s[k] # t[k]}

\* C5: Key derivation: every store access uses "form#" + uuid when a
\* non-empty uuid is configured and "form#" + form identifier otherwise, and
\* no other key of either store is read, written or removed.
C5_KeyDerivation ==
    /\ [](\A a \in accessed :
            IF last.f \in Forms
            THEN a[3] = ExpectedKey(last.f)
            ELSE \E f \in Forms : disposer[f] # "none" /\ a[3] = ExpectedKey(f))
    /\ [][/\ ChangedKeys(localStorage, localStorage')
               \subseteq {a[3] : a \in {b \in accessed' : b[1] = "local" /\ b[2] # "getItem"}}
          /\ ChangedKeys(sessionStorage, sessionStorage')
               \subseteq {a[3] : a \in {b \in accessed' : b[1] = "session" /\ b[2] # "getItem"}}]_vars

C5_Witness ==
    /\ last = Op("save", 1)
    /\ config[1].uuid = "custom"
    /\ form[1].id = "myForm"
    /\ accessed = {<<StorageOf(config[1]), "setItem", "form#custom">>}
    /\ "form#custom" \in DOMAIN SelectedStore(1)
    /\ "form#myForm" \notin DOMAIN SelectedStore(1)

\* the form with its password and file inputs replaced by inert elements
WithoutSecrets(f) ==
    [f EXCEPT !.elements =
        [i \in DOMAIN @ |-> IF IsPasswordOrFile(@[i]) THEN Button(@[i].name) ELSE @[i]]]

\* C6: Exclusion is absolute: whatever include, exclude, includeFilter and
\* excludeFilter are, no password input and no file input contributes a
\* value to the record serialize returns.
C6_ExclusionAbsolute ==
    \A f \in Forms :
        last = Op("serialize", f) =>
            /\ \A j \in DOMAIN Pushes(form[f], config[f], 1) :
                  ~IsPasswordOrFile(form[f].elements[Pushes(form[f], config[f], 1)[j].el])
            /\ data = serialize(WithoutSecrets(form[f]), config[f])

C6_Witness ==
    /\ last = Op("serialize", 1)
    /\ form[1].elements[1] = Input("password", "a", "pw", FALSE)
    /\ Len(form[1].elements) = 2
    /\ form[1].elements[2] = Input("file", "b", "cv.pdf", FALSE)
    /\ config[1].include = <<"a", "b">>
    /\ config[1].exclude = <<>>
    /\ ~config[1].includeFilter.present
    /\ ~config[1].excludeFilter.present
    /\ data = <<>>

\* C7: Filter precedence: a name in exclude never participates even when it
\* is in include, and an element matched by excludeFilter never participates
\* even when includeFilter matches it: serialize records no value of such an
\* element and deserialize writes to no such element.
C7_FilterPrecedence ==
    \A f \in Forms :
        LET cfg == config[f]
            Denied(i) == \/ Includes(cfg.exclude, form[f].elements[i].name)
                         \/ (cfg.excludeFilter.present /\ i \in cfg.excludeFilter.matches)
            pushes == Pushes(form[f], cfg, 1)
        IN /\ last = Op("serialize", f) =>
                /\ \A j \in DOMAIN pushes : ~Denied(pushes[j].el)
                /\ \A n \in DOMAIN data : ~Includes(cfg.exclude, data[n].key)
                /\ data = PushAll(<<>>, pushes, 1)
           /\ last = Op("deserialize", f) =>
                \A i \in writes : ~Denied(i)

C7_Witness ==
    /\ last = Op("deserialize", 1)
    /\ config[1].include = <<"a", "b">>
    /\ config[1].exclude = <<"b">>
    /\ HasKey(data, "a") /\ HasKey(data, "b")
    /\ Len(form[1].elements) = 2
    /\ form[1].elements[1].name = "b"
    /\ form[1].elements[2].name = "a"
    /\ writes = {2}

\* C8: Empty-value omission: in the record serialize returns no sequence
\* contains the empty string, no key maps to an empty sequence, and a name
\* whose only participating elements are text-like inputs, textareas or
\* single selects with value "" is not a key.
C8_EmptyValueOmission ==
    \A f \in Forms :
        LET cfg == config[f]
            els == form[f].elements
            Participates(i) ==
                /\ ~IsPasswordOrFile(els[i])
                /\ ~isNameFiltered(els[i].name, cfg.include, cfg.exclude)
                /\ ~isElementFiltered(i, cfg.includeFilter, cfg.excludeFilter)
            EmptyTextLike(i) ==
                \/ /\ els[i].tag = "INPUT" /\ els[i].type \notin {"radio", "checkbox"}
                   /\ els[i].value = ""
                \/ els[i].tag = "TEXTAREA" /\ els[i].value = ""
                \/ /\ els[i].tag = "SELECT" /\ els[i].type = "select-one"
                   /\ \A j \in DOMAIN els[i].options :
                         els[i].options[j].selected => els[i].options[j].value = ""
        IN last = Op("serialize", f) =>
              /\ \A n \in DOMAIN data :
                    /\ data[n].vals # <<>>
                    /\ \A j \in DOMAIN data[n].vals : data[n].vals[j] # Str("")
              /\ \A x \in Names :
                    (\A i \in DOMAIN els :
                        (els[i].name = x /\ Participates(i)) => EmptyTextLike(i))
                        => ~HasKey(data, x)

C8_Witness ==
    /\ last = Op("serialize", 1)
    /\ config[1] = DefaultOptions
    /\ form[1].elements = <<Input("text", "a", "", FALSE), Textarea("b", "")>>
    /\ data = <<>>

\* C9: Missing form identity: with neither a non-empty uuid nor a non-empty
\* form identifier, save, load, clearStorage and persist each fail with the
\* configuration error and leave both stores, the forms and the listeners
\* unchanged; persist returns no disposer.
C9_MissingIdentity ==
    [][\A f \in Forms :
          (/\ config[f].uuid = "" /\ form[f].id = ""
           /\ last'.f = f
           /\ last'.op \in {"save", "load", "clearStorage", "persist"})
              => /\ err' = "config"
                 /\ UNCHANGED <<form, localStorage, sessionStorage,
                                windowListeners, submitListeners, disposer>>]_vars

C9_Witness ==
    /\ last = Op("persist", 1)
    /\ config[1].uuid = "" /\ form[1].id = ""
    /\ err = "config"
    /\ disposer[1] = "none"
    /\ ~Armed(1)

\* C10: Disposer flush-then-detach: right after the disposer is called the
\* session's key holds the serialization of the form's current state and no
\* trigger of the session is armed; from then on no popstate, beforeunload
\* or unload signal writes under the session's key.
C10_DisposerFlushDetach ==
    /\ [](\A f \in Forms :
            last = Op("dispose", f) =>
                /\ ExpectedKey(f) \in DOMAIN SelectedStore(f)
                /\ JSONparse(SelectedStore(f)[ExpectedKey(f)])
                      = ParseOK(Len(SelectedStore(f)[ExpectedKey(f)]) + 1,
                                serialize(form[f], config[f]))
                /\ ~Armed(f))
    /\ [][\A f \in Forms :
            (disposer[f] = "called" /\ last'.op \in Signals)
                => /\ <<StorageOf(config[f]), "setItem", ExpectedKey(f)>> \notin accessed'
                   /\ Stored(f)' = Stored(f)
                   /\ ~Armed(f)']_vars

C10_Witness ==
    /\ last = Op("unload", 0)
    /\ disposer[1] = "called"
    /\ form[1].elements[1].value = "alice"
    /\ ExpectedKey(1) \in DOMAIN SelectedStore(1)
    /\ JSONparse(SelectedStore(1)[ExpectedKey(1)]).value
          = <<Entry("agree", <<Bool(FALSE)>>)>>

\* the listeners session f has on the window for event
ListenersFor(f, event) ==
    {i \in DOMAIN windowListeners :
        windowListeners[i].owner = f /\ windowListeners[i].event = event}

\* C11: No duplicate save on unload: a session has at most one listener per
\* window signal; a beforeunload signal makes an armed session save once and
\* leaves it without its unload listener, so the unload signal that follows
\* makes no further save: one save for the pair.
C11_NoDuplicateSaveOnUnload ==
    /\ [](\A f \in Forms : \A ev \in Signals : Cardinality(ListenersFor(f, ev)) <= 1)
    /\ [][\A f \in Forms :
            /\ (ArmedFor(f, "beforeunload") /\ last' = Op("beforeunload", 0))
                  => /\ <<StorageOf(config[f]), "setItem", ExpectedKey(f)>> \in accessed'
                     /\ ~ArmedFor(f, "unload")'
            /\ (last = Op("beforeunload", 0) /\ last' = Op("unload", 0))
                  => /\ <<StorageOf(config[f]), "setItem", ExpectedKey(f)>> \notin accessed'
                     /\ Stored(f)' = Stored(f)]_vars

C11_Witness ==
    /\ last = Op("unload", 0)
    /\ disposer[1] = "held"
    /\ ArmedFor(1, "popstate") /\ ArmedFor(1, "beforeunload")
    /\ ~ArmedFor(1, "unload")
    /\ accessed = {}
    /\ form[1].elements[1].value = "alice"
    /\ JSONparse(Stored(1)).value = <<Entry("name", <<Str("alice")>>), Entry("agree", <<Bool(FALSE)>>)>>

\* form f has an identity to derive its key from
HasIdentity(f) == config[f].uuid # "" \/ form[f].id # ""

\* C12: Absent record is normal: when the selected store holds nothing under
\* the form's key, load raises no error and changes no element and neither
\* store, and clearStorage raises no error and changes neither store.
C12_AbsentRecordNormal ==
    [][\A f \in Forms :
          (HasIdentity(f) /\ ExpectedKey(f) \notin DOMAIN SelectedStore(f))
              => /\ last' = Op("load", f) =>
                     /\ err' = "none"
                     /\ UNCHANGED <<form, localStorage, sessionStorage>>
                 /\ last' = Op("clearStorage", f) =>
                     /\ err' = "none"
                     /\ UNCHANGED <<localStorage, sessionStorage>>]_vars

C12_Witness ==
    /\ last = Op("load", 1)
    /\ ExpectedKey(1) \notin DOMAIN SelectedStore(1)
    /\ <<IF config[1].useSessionStorage THEN "session" ELSE "local", "getItem", ExpectedKey(1)>> \in accessed
    /\ err = "none"
    /\ form[1].elements[1].value = "alice"
    /\ form[1].elements[2].checked

\* the name of the store the options of form f select
SelectedName(f) == IF config[f].useSessionStorage THEN "session" ELSE "local"

\* the kind of store access save, load and clearStorage make
AccessOf(op) ==
    IF op = "save" THEN "setItem" ELSE IF op = "load" THEN "getItem" ELSE "removeItem"

\* C13: Store selection is per call: save, load and clearStorage access the
\* session store alone when the form's options set useSessionStorage and
\* the durable store alone otherwise; every access a persist session makes
\* goes to the store its options select, and a store changes only under
\* the keys of forms whose options select it.
C13_StoreSelection ==
    /\ [](\A a \in accessed :
            \E f \in Forms : a[3] = ExpectedKey(f) /\ a[1] = SelectedName(f))
    /\ [](\A f \in Forms :
            (HasIdentity(f) /\ last.f = f /\ last.op \in {"save", "load", "clearStorage"})
                => accessed = {<<SelectedName(f), AccessOf(last.op), ExpectedKey(f)>>})
    /\ [][/\ ChangedKeys(localStorage, localStorage')
               \subseteq {ExpectedKey(f) : f \in {g \in Forms : SelectedName(g) = "local"}}
          /\ ChangedKeys(sessionStorage, sessionStorage')
               \subseteq {ExpectedKey(f) : f \in {g \in Forms : SelectedName(g) = "session"}}]_vars

C13_Witness ==
    /\ last = Op("popstate", 0)
    /\ config[1].useSessionStorage /\ ~config[2].useSessionStorage
    /\ disposer[1] = "held" /\ disposer[2] = "held"
    /\ accessed = {<<"session", "setItem", "form#myForm">>, <<"local", "setItem", "form#other">>}
    /\ DOMAIN sessionStorage = {UnrelatedKey, "form#myForm"}
    /\ DOMAIN localStorage = {UnrelatedKey, "form#other"}

\* field n of the record of a deserialize on form f takes the generic path
GenericField(f, n) ==
    /\ HasKey(data, n)
    /\ ~Includes(config[f].exclude, n)
    /\ (config[f].include = <<>> \/ Includes(config[f].include, n))
    /\ ~(config[f].valueFunctions.present /\ Includes(config[f].valueFunctions.keys, n))

\* element i of form f passes the element filters
PassesFilters(f, i) ==
    /\ config[f].includeFilter.present => i \in config[f].includeFilter.matches
    /\ config[f].excludeFilter.present => i \notin config[f].excludeFilter.matches

\* C14: Radio group restoration: after deserialize of a record whose field n
\* takes the generic path, every participating radio input named n is
\* checked if and only if its own value equals the first value of the
\* sequence of n, wherever it stands among the elements named n and
\* whatever it was before.
C14_RadioGroupRestoration ==
    \A f \in Forms : \A n \in Names :
        (last = Op("deserialize", f) /\ GenericField(f, n))
            => \A i \in DOMAIN form[f].elements :
                  LET el == form[f].elements[i]
                  IN (el.tag = "INPUT" /\ el.type = "radio" /\ el.name = n /\ PassesFilters(f, i))
                        => (el.checked <=> Str(el.value) = Get(data, n)[1])

\* C15: Malformed stored data: when the text stored under the form's key is
\* not valid JSON, load fails with the parse error and leaves every element
\* and both stores as they were, and persist fails the same way at its
\* initial load: it arms no trigger, installs no submit listener and
\* returns no disposer.
C15_MalformedStoredData ==
    [][\A f \in Forms :
          (HasIdentity(f) /\ Len(Stored(f)) > 0 /\ ~JSONparse(Stored(f)).ok)
              => /\ last' = Op("load", f) =>
                     /\ err' = "parse"
                     /\ UNCHANGED <<form, localStorage, sessionStorage>>
                 /\ last' = Op("persist", f) =>
                     /\ err' = "parse"
                     /\ UNCHANGED <<form, localStorage, sessionStorage,
                                    windowListeners, submitListeners, disposer>>]_vars

C15_Witness ==
    /\ last = Op("persist", 1)
    /\ Stored(1) = Malformed
    /\ err = "parse"
    /\ disposer[1] = "none"
    /\ ~Armed(1)
    /\ submitListeners = {}
    /\ form[1].elements[1].value = "alice"

\* element i of form f is one that serialize and deserialize act on
Participates(f, i) ==
    /\ ~IsPasswordOrFile(form[f].elements[i])
    /\ ~Includes(config[f].exclude, form[f].elements[i].name)
    /\ (config[f].include = <<>> \/ Includes(config[f].include, form[f].elements[i].name))
    /\ PassesFilters(f, i)

\* C16: Save-then-load identity: save immediately followed by load with the
\* same options leaves every participating element with the value, checked
\* state and selected options it had before the save, also when several
\* participating elements share a name.
C16_SaveLoadIdentity ==
    [][\A f \in Forms :
          (last = Op("save", f) /\ last' = Op("load", f))
              => \A i \in DOMAIN form[f].elements :
                    Participates(f, i) => form'[f].elements[i] = form[f].elements[i]]_vars

\* the submit listener of the session on form f has run: the session holds
\* its disposer and has no trigger left
Submitted(f) == disposer[f] = "held" /\ ~Armed(f)

\* C17: Discarded draft stays discarded: in a session created with the
\* default options, once the submit signal has fired and cleared the
\* storage key, no later step of the session writes the key again, be it a
\* popstate, beforeunload or unload signal or a call of the disposer.
C17_DiscardedStaysDiscarded ==
    [][\A f \in Forms :
          (/\ config[f] = DefaultOptions
           /\ Submitted(f)
           /\ ExpectedKey(f) \notin DOMAIN SelectedStore(f)
           /\ (last'.op \in Signals \/ last' = Op("dispose", f)))
              => /\ <<"local", "setItem", ExpectedKey(f)>> \notin accessed'
                 /\ ExpectedKey(f) \notin DOMAIN SelectedStore(f)']_vars

\* the listeners of list that the session on form g registered
ListenersOf(list, g) == SelectSeq(list, LAMBDA x : x.owner = g)

\* C18: Sessions do not interfere: with two persist sessions on two forms
\* with different keys, the submit signal of one form and the disposer of
\* one session detach that session's triggers alone and touch its key
\* alone; the triggers and the submit listener of the other session stay
\* as they were and its stored record is unchanged.
C18_SessionsIndependent ==
    [][\A f, g \in Forms :
          (/\ f # g
           /\ disposer[f] # "none" /\ disposer[g] # "none"
           /\ (last' = Op("submit", f) \/ last' = Op("dispose", f)))
              => /\ ~Armed(f)'
                 /\ ListenersOf(windowListeners', g) = ListenersOf(windowListeners, g)
                 /\ (g \in submitListeners') <=> (g \in submitListeners)
                 /\ Stored(g)' = Stored(g)
                 /\ \A a \in accessed' : a[3] = ExpectedKey(f)
                 /\ ChangedKeys(localStorage, localStorage') \subseteq {ExpectedKey(f)}
                 /\ ChangedKeys(sessionStorage, sessionStorage') \subseteq {ExpectedKey(f)}]_vars

C18_Witness ==
    /\ last = Op("submit", 1)
    /\ disposer[1] = "held" /\ disposer[2] = "held"
    /\ ~config[1].useSessionStorage /\ ~config[2].useSessionStorage
    /\ ~Armed(1)
    /\ \A ev \in Signals : ArmedFor(2, ev)
    /\ 2 \in submitListeners
    /\ ExpectedKey(1) \notin DOMAIN localStorage
    /\ form[2].elements[1].checked
    /\ JSONparse(Stored(2)).value = <<Entry("agree", <<Bool(TRUE)>>)>>

\* C19: Password and file fields are never restored: for every record, also
\* one with a key equal to the name of a password or file input, and every
\* options value, deserialize (through which load applies a stored record)
\* leaves the value of every password input and every file input as it was.
C19_SecretsNeverRestored ==
    [][\A f \in Forms :
          last' = Op("deserialize", f)
              => \A i \in DOMAIN form[f].elements :
                    IsPasswordOrFile(form[f].elements[i])
                        => form'[f].elements[i].value = form[f].elements[i].value]_vars

====
